---- MODULE Spec2Model ----
(***************************************************************************)
(* EXPLORABOT: the NLPProcessor of src/src/nlp-processor.js and the HTTP   *)
(* and WebSocket handlers of src/src/index.js that call it, as a state     *)
(* machine.  A JavaScript string is a sequence of one-character strings;   *)
(* a character outside ASCII is written "<U+XXXX>" and is one element.     *)
(* A produced text is a sequence whose elements are characters or literal  *)
(* chunks of a template (a chunk is the fixed text between two             *)
(* interpolations, kept as one element).  The timestamp of a conversation  *)
(* turn is left out: no method of the class reads it.  A long run of one    *)
(* repeated character is kept as one element, with its length in RunLength.*)
(***************************************************************************)
EXTENDS Integers, Sequences, FiniteSets, TLC

VARIABLES
    intents,    \* this.intents: the ordered intent table built by the constructor
    context,    \* this.context: [lastIntent, conversationHistory]
    nodeEnv,    \* process.env.NODE_ENV as read by the constructor
    op,         \* the last method called on the instance
    arg,        \* the argument of the last process call
    ret,        \* what the last call returned (or threw)
    detected,   \* the local constant intent of the last process call
    calls,      \* process calls since construction or the last clearContext
    pristine,   \* what process could return on the new instance (SpecOfOutcomes)
    requests,   \* the POST /api/chat requests of the server, by request
    sockets,    \* the WebSocket connections of the server, by client
    events,     \* requests and frames the server has received
    served,     \* the process calls of the handlers, in the order they ran
    server      \* the module-level state of index.js

nlpVars == <<intents, context, nodeEnv, op, arg, ret, detected, calls, pristine>>

serverVars == <<requests, sockets, events, served, server>>

vars == <<nlpVars, serverVars>>

----------------------------------------------------------------------------
(* Bounds of the model *)

MaxCalls == 2
RandomSteps == 4

----------------------------------------------------------------------------
(* JavaScript values *)

null == "<null>"

JsNull == [type |-> "null"]
JsUndefined == [type |-> "undefined"]
JsNumber(n) == [type |-> "number", num |-> n]
JsObject == [type |-> "object"]
JsString(cs) == [type |-> "string", chars |-> cs]
JsArray(xs) == [type |-> "array", items |-> xs]
Thrown(e) == [type |-> "throw", error |-> e]

\* typeof v
TypeOf(v) == IF v.type \in {"null", "array"} THEN "object" ELSE v.type

\* !v
Falsy(v) ==
    \/ v.type \in {"null", "undefined"}
    \/ v.type = "string" /\ v.chars = <<>>
    \/ v.type = "number" /\ v.num = 0

----------------------------------------------------------------------------
(* Characters *)

UpperCase == <<"A", "B", "C", "D", "E", "F", "G", "H", "I", "J", "K", "L", "M",
               "N", "O", "P", "Q", "R", "S", "T", "U", "V", "W", "X", "Y", "Z">>
LowerCase == <<"a", "b", "c", "d", "e", "f", "g", "h", "i", "j", "k", "l", "m",
               "n", "o", "p", "q", "r", "s", "t", "u", "v", "w", "x", "y", "z">>
Digits == {"0", "1", "2", "3", "4", "5", "6", "7", "8", "9"}

Range(f) == {f[i] : i \in DOMAIN f}

\* \w of a regular expression without the u flag
IsWordChar(c) == c \in Range(UpperCase) \cup Range(LowerCase) \cup Digits \cup {"_"}

\* \s of a regular expression, and what String.prototype.trim strips
IsSpace(c) == c \in {" ", "\t", "\n", "\r", "\f", "<U+000B>", "<U+00A0>", "<U+FEFF>",
                     "<U+2028>", "<U+2029>", "<space x 10001>"}

\* what . of a regular expression does not match
IsLineTerminator(c) == c \in {"\n", "\r", "<U+2028>", "<U+2029>"}

\* one character of String.prototype.toLowerCase, and the case folding of /i
LowerChar(c) ==
    IF c \in Range(UpperCase)
    THEN LowerCase[CHOOSE i \in DOMAIN UpperCase : UpperCase[i] = c]
    ELSE c

toLowerCase(s) == [i \in DOMAIN s |-> LowerChar(s[i])]

\* String.prototype.trimStart in the place of trim
trimStart(s) ==
    LET keep == {i \in DOMAIN s : ~IsSpace(s[i])}
    IN  IF keep = {} THEN <<>>
        ELSE SubSeq(s, CHOOSE i \in keep : \A j \in keep : i <= j, Len(s))

\* String.prototype.trim
trim(s) ==
    LET keep == {i \in DOMAIN s : ~IsSpace(s[i])}
    IN  IF keep = {} THEN <<>>
        ELSE SubSeq(s, CHOOSE i \in keep : \A j \in keep : i <= j,
                       CHOOSE i \in keep : \A j \in keep : i >= j)

\* w occurs in s starting at index i
OccursAt(s, i, w) ==
    /\ i >= 1
    /\ i + Len(w) - 1 <= Len(s)
    /\ \A k \in 1..Len(w) : s[i + k - 1] = w[k]

\* String.prototype.includes
includes(s, w) == \E i \in 1..(Len(s) + 1) : OccursAt(s, i, w)

----------------------------------------------------------------------------
(* Literal words of the patterns and of the fallback keywords; good is *)
(* "good " with the space that follows it in /^good (morning|...)/          *)

W ==
    [hi |-> <<"h", "i">>,
     hello |-> <<"h", "e", "l", "l", "o">>,
     hey |-> <<"h", "e", "y">>,
     greetings |-> <<"g", "r", "e", "e", "t", "i", "n", "g", "s">>,
     good |-> <<"g", "o", "o", "d", " ">>,
     morning |-> <<"m", "o", "r", "n", "i", "n", "g">>,
     afternoon |-> <<"a", "f", "t", "e", "r", "n", "o", "o", "n">>,
     evening |-> <<"e", "v", "e", "n", "i", "n", "g">>,
     help |-> <<"h", "e", "l", "p">>,
     assist |-> <<"a", "s", "s", "i", "s", "t">>,
     guide |-> <<"g", "u", "i", "d", "e">>,
     support |-> <<"s", "u", "p", "p", "o", "r", "t">>,
     what_can_you_do |-> <<"w", "h", "a", "t", " ", "c", "a", "n", " ", "y", "o", "u", " ", "d", "o">>,
     how |-> <<"h", "o", "w">>,
     to |-> <<"t", "o">>,
     what |-> <<"w", "h", "a", "t">>,
     deploy |-> <<"d", "e", "p", "l", "o", "y">>,
     deployment |-> <<"d", "e", "p", "l", "o", "y", "m", "e", "n", "t">>,
     launch |-> <<"l", "a", "u", "n", "c", "h">>,
     publish |-> <<"p", "u", "b", "l", "i", "s", "h">>,
     release |-> <<"r", "e", "l", "e", "a", "s", "e">>,
     code |-> <<"c", "o", "d", "e">>,
     generate |-> <<"g", "e", "n", "e", "r", "a", "t", "e">>,
     create |-> <<"c", "r", "e", "a", "t", "e">>,
     build |-> <<"b", "u", "i", "l", "d">>,
     make |-> <<"m", "a", "k", "e">>,
     develop |-> <<"d", "e", "v", "e", "l", "o", "p">>,
     app |-> <<"a", "p", "p">>,
     api |-> <<"a", "p", "i">>,
     form |-> <<"f", "o", "r", "m">>,
     page |-> <<"p", "a", "g", "e">>,
     component |-> <<"c", "o", "m", "p", "o", "n", "e", "n", "t">>,
     docker |-> <<"d", "o", "c", "k", "e", "r">>,
     container |-> <<"c", "o", "n", "t", "a", "i", "n", "e", "r">>,
     dockerfile |-> <<"d", "o", "c", "k", "e", "r", "f", "i", "l", "e">>,
     image |-> <<"i", "m", "a", "g", "e">>,
     mobile |-> <<"m", "o", "b", "i", "l", "e">>,
     responsive |-> <<"r", "e", "s", "p", "o", "n", "s", "i", "v", "e">>,
     phone |-> <<"p", "h", "o", "n", "e">>,
     tablet |-> <<"t", "a", "b", "l", "e", "t">>,
     samsung |-> <<"s", "a", "m", "s", "u", "n", "g">>,
     galaxy |-> <<"g", "a", "l", "a", "x", "y">>,
     ai |-> <<"a", "i">>,
     artificial_intelligence |-> <<"a", "r", "t", "i", "f", "i", "c", "i", "a", "l", " ", "i", "n", "t", "e", "l", "l", "i", "g", "e", "n", "c", "e">>,
     machine_learning |-> <<"m", "a", "c", "h", "i", "n", "e", " ", "l", "e", "a", "r", "n", "i", "n", "g">>,
     ml |-> <<"m", "l">>,
     model |-> <<"m", "o", "d", "e", "l">>,
     neural |-> <<"n", "e", "u", "r", "a", "l">>,
     status |-> <<"s", "t", "a", "t", "u", "s">>,
     health |-> <<"h", "e", "a", "l", "t", "h">>,
     running |-> <<"r", "u", "n", "n", "i", "n", "g">>,
     online |-> <<"o", "n", "l", "i", "n", "e">>,
     check |-> <<"c", "h", "e", "c", "k">>,
     why |-> <<"w", "h", "y">>,
     when |-> <<"w", "h", "e", "n">>,
     where |-> <<"w", "h", "e", "r", "e">>,
     who |-> <<"w", "h", "o">>,
     qmark |-> <<"?">>,
     database |-> <<"d", "a", "t", "a", "b", "a", "s", "e">>,
     server |-> <<"s", "e", "r", "v", "e", "r">>,
     config |-> <<"c", "o", "n", "f", "i", "g">>,
     setup |-> <<"s", "e", "t", "u", "p">>,
     show |-> <<"s", "h", "o", "w">>,
     explain |-> <<"e", "x", "p", "l", "a", "i", "n">>]

----------------------------------------------------------------------------
(* The response templates, as written in the source *)

GreetingText1 ==
    "Hello! <U+1F44B> I'm EXPLORABOT, your AI assistant. How can I help you today?"
GreetingText2 ==
    "Hi there! I'm here to help you build and deploy applications without writing code. What would you like to create?"
GreetingText3 ==
    "Hey! Ready to explore? Ask me anything or describe what you'd like to build!"
HelpText ==
    "<U+1F916> **I can help you with:**\n\n<U+2022> **Deploy Applications** - \"Deploy a web app\" or \"Set up Docker container\"\n<U+2022> **Generate Code** - \"Create a REST API\" or \"Build a login form\"\n<U+2022> **Explain Concepts** - \"What is CI/CD?\" or \"Explain microservices\"\n<U+2022> **Configure Services** - \"Set up database\" or \"Configure environment\"\n<U+2022> **Best Practices** - \"Mobile optimization tips\" or \"Security guidelines\"\n\nJust describe what you need in plain English!"
DeployText ==
    "<U+1F680> **Deployment Options:**\n\n1. **Docker** - Containerize and deploy locally\n2. **Railway** - One-click cloud deployment\n3. **Docker Compose** - Multi-service orchestration\n\nTell me: \"Deploy with Docker\" or \"Set up Railway deployment\""
CodeText ==
    "<U+1F4BB> **Code Generation:**\n\nI can help you create:\n<U+2022> Web pages and UI components\n<U+2022> REST APIs and endpoints\n<U+2022> Database schemas\n<U+2022> Authentication systems\n<U+2022> Mobile-responsive layouts\n\nWhat would you like me to generate?"
DockerText ==
    "<U+1F433> **Docker Commands:**\n\n<U+0060><U+0060><U+0060>bash\n# Build container\ndocker build -t explorabot .\n\n# Run container\ndocker run -p 8080:8080 explorabot\n\n# Or use Docker Compose\ndocker-compose up -d\n<U+0060><U+0060><U+0060>\n\nNeed help with a specific Docker task?"
MobileText ==
    "<U+1F4F1> **Mobile Optimization:**\n\nEXPLORABOT is optimized for Samsung Galaxy S24 FE:\n<U+2022> 120Hz smooth animations\n<U+2022> AMOLED dark theme\n<U+2022> Touch-optimized controls\n<U+2022> Offline support\n<U+2022> Battery efficient\n\nSee our [Mobile Platform Guidelines](/docs/MOBILE_PLATFORM_GUIDELINES.md)"
AiText ==
    "<U+1F9E0> **AI Capabilities:**\n\n<U+2022> On-device AI inference\n<U+2022> Model optimization for mobile\n<U+2022> Natural language processing\n<U+2022> Context-aware responses\n<U+2022> Zero-code AI integration\n\nLearn more in our [AI Architect Persona](/docs/AI_ARCHITECT_PERSONA.md)"
StatusTextHead ==
    "<U+2705> **System Status:**\n\n<U+1F7E2> Bot is online and healthy\n<U+1F4CA> Version: 1.0.0\n<U+1F30D> Environment: "
StatusTextTail ==
    "\n<U+26A1> Ready to assist you!"
QuestionFallbackHead ==
    "<U+1F914> Great question! I'm still learning about "
QuestionFallbackTail ==
    ". \n\nTry asking about:\n<U+2022> Deployment (\"How do I deploy?\")\n<U+2022> Code generation (\"Create a REST API\")\n<U+2022> Docker (\"Help with Docker\")\n<U+2022> Mobile optimization (\"Mobile best practices\")"
TechnicalFallbackHead ==
    "<U+1F527> I can help with technical tasks!\n\nFor "
TechnicalFallbackTail ==
    ", try being more specific:\n<U+2022> \"Deploy with Docker\"\n<U+2022> \"Create API endpoint\"\n<U+2022> \"Set up database connection\"\n<U+2022> \"Configure CI/CD pipeline\""
ActionFallbackHead ==
    "<U+26A1> I'm ready to help you with that!\n\nTo better assist with "
ActionFallbackTail ==
    ", please provide more details:\n<U+2022> What type of application?\n<U+2022> What features do you need?\n<U+2022> Any specific requirements?"
GeneralFallbackHead ==
    "<U+1F4AD> I understand you mentioned "
GeneralFallbackTail ==
    ".\n\nI can help you with:\n<U+2022> Deploying applications <U+1F680>\n<U+2022> Generating code <U+1F4BB>\n<U+2022> Docker configuration <U+1F433>\n<U+2022> Mobile optimization <U+1F4F1>\n<U+2022> AI integration <U+1F9E0>\n\nType \"help\" to see all my capabilities!"
DefaultText ==
    "<U+1F44B> Welcome to EXPLORABOT!\n\nI'm your AI assistant for building and deploying applications **without writing code**.\n\n**Try saying:**\n<U+2022> \"Help me deploy an app\"\n<U+2022> \"Create a REST API\"\n<U+2022> \"Show me Docker commands\"\n<U+2022> \"Mobile optimization tips\"\n\nJust describe what you need in plain English! <U+1F680>"

----------------------------------------------------------------------------
(* The argument values of process *)

\* the strings passed to process, by name
In ==
    [hello |-> <<"h", "e", "l", "l", "o">>,
     Hello_there |-> <<"H", "e", "l", "l", "o", " ", "t", "h", "e", "r", "e">>,
     pad_hi |-> <<" ", " ", "h", "i", " ">>,
     good_morning |-> <<"g", "o", "o", "d", " ", "m", "o", "r", "n", "i", "n", "g">>,
     history_of_docker |-> <<"h", "i", "s", "t", "o", "r", "y", " ", "o", "f", " ", "d", "o", "c", "k", "e", "r">>,
     help |-> <<"h", "e", "l", "p">>,
     how_to_deploy |-> <<"h", "o", "w", " ", "t", "o", " ", "d", "e", "p", "l", "o", "y">>,
     what_is_a_webhook |-> <<"w", "h", "a", "t", " ", "i", "s", " ", "a", " ", "w", "e", "b", "h", "o", "o", "k", "?">>,
     deploy_with_docker |-> <<"d", "e", "p", "l", "o", "y", " ", "w", "i", "t", "h", " ", "d", "o", "c", "k", "e", "r">>,
     Deploy_now |-> <<"D", "e", "p", "l", "o", "y", " ", "n", "o", "w">>,
     create_an_app |-> <<"c", "r", "e", "a", "t", "e", " ", "a", "n", " ", "a", "p", "p">>,
     make_nl_app |-> <<"m", "a", "k", "e", "\n", "a", "p", "p">>,
     create_stuff |-> <<"c", "r", "e", "a", "t", "e", " ", "s", "t", "u", "f", "f">>,
     docker |-> <<"d", "o", "c", "k", "e", "r">>,
     mobile_tips |-> <<"m", "o", "b", "i", "l", "e", " ", "t", "i", "p", "s">>,
     ai |-> <<"a", "i">>,
     email |-> <<"e", "m", "a", "i", "l">>,
     who_is_online |-> <<"w", "h", "o", " ", "i", "s", " ", "o", "n", "l", "i", "n", "e">>,
     asdkjalksdj |-> <<"a", "s", "d", "k", "j", "a", "l", "k", "s", "d", "j">>,
     pad_asdkjalksdj |-> <<" ", "a", "s", "d", "k", "j", "a", "l", "k", "s", "d", "j", "\t">>,
     my_api_q |-> <<"m", "y", " ", "a", "p", "i", "?">>,
     my_api |-> <<"m", "y", " ", "a", "p", "i">>,
     explain_this |-> <<"e", "x", "p", "l", "a", "i", "n", " ", "t", "h", "i", "s">>,
     show_me |-> <<"s", "h", "o", "w", " ", "m", "e">>,
     server_and_build |-> <<"s", "e", "r", "v", "e", "r", " ", "a", "n", "d", " ", "b", "u", "i", "l", "d">>,
     blank |-> <<" ", " ", " ">>,
     Cafe |-> <<"C", "a", "f", "<U+00E9>">>]

StringInputs == {<<>>} \cup {In[name] : name \in DOMAIN In}

\* the example commands of the guide (src/unnamed/part_002), by name
Doc ==
    [Help_me_deploy_with_Docker |-> <<"H", "e", "l", "p", " ", "m", "e", " ", "d", "e", "p", "l", "o", "y", " ", "w", "i", "t", "h", " ", "D", "o", "c", "k", "e", "r">>,
     Help_with_Docker |-> <<"H", "e", "l", "p", " ", "w", "i", "t", "h", " ", "D", "o", "c", "k", "e", "r">>,
     Dockerfile_help |-> <<"D", "o", "c", "k", "e", "r", "f", "i", "l", "e", " ", "h", "e", "l", "p">>,
     How_do_I_start |-> <<"H", "o", "w", " ", "d", "o", " ", "I", " ", "s", "t", "a", "r", "t", "?">>,
     Whats_the_status |-> <<"W", "h", "a", "t", "'", "s", " ", "t", "h", "e", " ", "s", "t", "a", "t", "u", "s", "?">>,
     Machine_learning_help |-> <<"M", "a", "c", "h", "i", "n", "e", " ", "l", "e", "a", "r", "n", "i", "n", "g", " ", "h", "e", "l", "p">>,
     Responsive_design_help |-> <<"R", "e", "s", "p", "o", "n", "s", "i", "v", "e", " ", "d", "e", "s", "i", "g", "n", " ", "h", "e", "l", "p">>]

DocExamples == {Doc[name] : name \in DOMAIN Doc}

\* further strings passed to process, by name
More ==
    [show_config |-> <<"s", "h", "o", "w", " ", "c", "o", "n", "f", "i", "g">>,
     SHOW_ALL |-> <<"S", "H", "O", "W", " ", "A", "L", "L">>,
     show_and_build |-> <<"s", "h", "o", "w", " ", "a", "n", "d", " ", "b", "u", "i", "l", "d">>,
     shower |-> <<"s", "h", "o", "w", "e", "r">>,
     hide_the_container |-> <<"h", "i", "d", "e", " ", "t", "h", "e", " ", "c", "o", "n", "t", "a", "i", "n", "e", "r">>,
     Heyday_deploy |-> <<"H", "e", "y", "d", "a", "y", " ", "d", "e", "p", "l", "o", "y">>,
     greetingsdocker |-> <<"g", "r", "e", "e", "t", "i", "n", "g", "s", "d", "o", "c", "k", "e", "r">>,
     hello_help |-> <<"h", "e", "l", "l", "o", " ", "h", "e", "l", "p">>,
     pad_History_of_ai |-> <<" ", " ", "H", "i", "s", "t", "o", "r", "y", " ", "o", "f", " ", "a", "i">>]

MoreStrings == {More[name] : name \in DOMAIN More}

\* a run of one repeated character, '#' or a space, kept as one element of
\* a string
Run ==
    [n9995 |-> "<# x 9995>", n9996 |-> "<# x 9996>",
     n99981 |-> "<# x 99981>", n99982 |-> "<# x 99982>",
     n1048557 |-> "<# x 1048557>", n1048558 |-> "<# x 1048558>",
     sp10001 |-> "<space x 10001>"]

\* the number of characters a run stands for
RunLength ==
    (Run.n9995 :> 9995) @@ (Run.n9996 :> 9996) @@
    (Run.n99981 :> 99981) @@ (Run.n99982 :> 99982) @@
    (Run.n1048557 :> 1048557) @@ (Run.n1048558 :> 1048558) @@
    (Run.sp10001 :> 10001)

\* s.length
RECURSIVE length(_)
length(s) ==
    IF s = <<>> THEN 0
    ELSE (IF s[1] \in DOMAIN RunLength THEN RunLength[s[1]] ELSE 1) + length(Tail(s))

\* 'hello' followed by a run of '#', and a run of spaces, by the length of
\* the whole
Long ==
    [hello_10000 |-> <<"h", "e", "l", "l", "o", Run.n9995>>,
     hello_10001 |-> <<"h", "e", "l", "l", "o", Run.n9996>>,
     hello_99986 |-> <<"h", "e", "l", "l", "o", Run.n99981>>,
     hello_99987 |-> <<"h", "e", "l", "l", "o", Run.n99982>>,
     hello_1048562 |-> <<"h", "e", "l", "l", "o", Run.n1048557>>,
     hello_1048563 |-> <<"h", "e", "l", "l", "o", Run.n1048558>>,
     spaces_10001 |-> <<Run.sp10001>>]

LongStrings == {Long[name] : name \in DOMAIN Long}

\* every string the model passes to process: the WebSocket handler passes
\* the trimmed content
RawStrings == StringInputs \cup DocExamples \cup LongStrings \cup MoreStrings
AllStrings == RawStrings \cup {trim(s) : s \in RawStrings}

\* userInput.trim() of every string input of the model, evaluated once
TrimCache == [s \in AllStrings |-> trim(s)]

TrimmedInputs == {TrimCache[s] : s \in AllStrings}

----------------------------------------------------------------------------
(* Regular expressions: a pattern is an optional ^ anchor followed by a    *)
(* sequence of items, all under the i flag                                 *)

WordBoundary == [t |-> "b"]             \* \b
Alt(ws) == [t |-> "alt", alts |-> ws]   \* (w1|w2|...), or one literal
Spaces == [t |-> "s+"]                  \* \s+
AnyStar == [t |-> ".*"]                 \* .*

Anchored(items) == [anchored |-> TRUE, items |-> items]
Floating(items) == [anchored |-> FALSE, items |-> items]

\* \b holds before index p: exactly one of s[p-1], s[p] is a word character
IsBoundary(s, p) ==
    LET before == p - 1 >= 1 /\ IsWordChar(s[p - 1])
        after == p <= Len(s) /\ IsWordChar(s[p])
    IN  before # after

\* the positions an item can end at when it starts at one of the positions P
\* (a position is the index of the next character to read)
Step(item, s, P) ==
    CASE item.t = "b" -> {p \in P : IsBoundary(s, p)}
      [] item.t = "alt" ->
            {p + Len(w) : <<p, w>> \in
                {pw \in P \X item.alts : OccursAt(toLowerCase(s), pw[1], pw[2])}}
      [] item.t = "s+" ->
            {q \in 2..(Len(s) + 1) :
                \E p \in P : p < q /\ \A i \in p..(q - 1) : IsSpace(s[i])}
      [] item.t = ".*" ->
            {q \in 1..(Len(s) + 1) :
                \E p \in P : p <= q /\ \A i \in p..(q - 1) : ~IsLineTerminator(s[i])}

RECURSIVE MatchItems(_, _, _, _)
MatchItems(items, k, s, P) ==
    IF k > Len(items) THEN P
    ELSE MatchItems(items, k + 1, s, Step(items[k], s, P))

\* RegExp.prototype.test (no g or y flag: the match is stateless)
test(pattern, s) ==
    LET starts == IF pattern.anchored THEN {1} ELSE 1..(Len(s) + 1)
    IN  MatchItems(pattern.items, 1, s, starts) # {}

----------------------------------------------------------------------------
(* The intent table of the constructor, in declaration order *)

NodeEnvs == {"", "production"}

\* the greeting intent with its first pattern closed by a word boundary
GreetingIntentWholeWord ==
    [name |-> "greeting",
     patterns |-> <<
        Anchored(<<Alt({W.hi, W.hello, W.hey, W.greetings}), WordBoundary>>),
        Anchored(<<Alt({W.good}), Alt({W.morning, W.afternoon, W.evening})>>)>>,
     responses |-> << <<GreetingText1>>, <<GreetingText2>>, <<GreetingText3>> >>]

GreetingIntent ==
    [name |-> "greeting",
     patterns |-> <<
        Anchored(<<Alt({W.hi, W.hello, W.hey, W.greetings})>>),
        Anchored(<<Alt({W.good}), Alt({W.morning, W.afternoon, W.evening})>>)>>,
     responses |-> << <<GreetingText1>>, <<GreetingText2>>, <<GreetingText3>> >>]

\* the help intent with its third pattern, /^what/i, left out
HelpIntentWithoutWhat ==
    [name |-> "help",
     patterns |-> <<
        Floating(<<WordBoundary,
                   Alt({W.help, W.assist, W.guide, W.support, W.what_can_you_do}),
                   WordBoundary>>),
        Floating(<<Alt({W.how}), Spaces, Alt({W.to})>>)>>,
     responses |-> << <<HelpText>> >>]

HelpIntent ==
    [name |-> "help",
     patterns |-> <<
        Floating(<<WordBoundary,
                   Alt({W.help, W.assist, W.guide, W.support, W.what_can_you_do}),
                   WordBoundary>>),
        Floating(<<Alt({W.how}), Spaces, Alt({W.to})>>),
        Anchored(<<Alt({W.what})>>)>>,
     responses |-> << <<HelpText>> >>]

DeployIntent ==
    [name |-> "deploy",
     patterns |-> <<
        Floating(<<WordBoundary,
                   Alt({W.deploy, W.deployment, W.launch, W.publish, W.release}),
                   WordBoundary>>)>>,
     responses |-> << <<DeployText>> >>]

CodeIntent ==
    [name |-> "code",
     patterns |-> <<
        Floating(<<WordBoundary,
                   Alt({W.code, W.generate, W.create, W.build, W.make, W.develop}),
                   WordBoundary, AnyStar,
                   Alt({W.app, W.api, W.form, W.page, W.component})>>)>>,
     responses |-> << <<CodeText>> >>]

DockerIntent ==
    [name |-> "docker",
     patterns |-> <<
        Floating(<<WordBoundary,
                   Alt({W.docker, W.container, W.dockerfile, W.image}),
                   WordBoundary>>)>>,
     responses |-> << <<DockerText>> >>]

MobileIntent ==
    [name |-> "mobile",
     patterns |-> <<
        Floating(<<WordBoundary,
                   Alt({W.mobile, W.responsive, W.phone, W.tablet, W.samsung,
                        W.galaxy})>>)>>,
     responses |-> << <<MobileText>> >>]

AiIntent ==
    [name |-> "ai",
     patterns |-> <<
        Floating(<<WordBoundary,
                   Alt({W.ai, W.artificial_intelligence, W.machine_learning, W.ml,
                        W.model, W.neural}),
                   WordBoundary>>)>>,
     responses |-> << <<AiText>> >>]

\* ${process.env.NODE_ENV || 'development'} is read when the table is built
StatusIntent(env) ==
    [name |-> "status",
     patterns |-> <<
        Floating(<<WordBoundary,
                   Alt({W.status, W.health, W.running, W.online, W.check}),
                   WordBoundary>>)>>,
     responses |-> <<
        <<StatusTextHead, IF env = "" THEN "development" ELSE env, StatusTextTail>> >>]

\* this.intents: Object.entries enumerates it in this order
Intents(env) ==
    <<GreetingIntent, HelpIntent, DeployIntent, CodeIntent, DockerIntent,
      MobileIntent, AiIntent, StatusIntent(env)>>

\* the table with the response list of its entry i left empty
WithoutResponses(table, i) == [table EXCEPT ![i].responses = <<>>]

\* the table as written in the source, and as written with the response list
\* of deploy left empty
ShippedTables == {Intents(env) : env \in NodeEnvs}
MalformedTables == {WithoutResponses(table, 3) : table \in ShippedTables}
Tables == ShippedTables \cup MalformedTables

\* this.context as the constructor sets it
EmptyContext == [lastIntent |-> null, conversationHistory |-> <<>>]

\* clearContext emptying the history and keeping lastIntent
ClearedContextKeepsLastIntent ==
    [lastIntent |-> context.lastIntent, conversationHistory |-> <<>>]

\* this.context as clearContext sets it
ClearedContext == [lastIntent |-> null, conversationHistory |-> <<>>]

----------------------------------------------------------------------------
(* The methods *)

getDefaultResponse == JsString(<<DefaultText>>)

\* detectIntent without the early return: the last matching intent wins
RECURSIVE ScanIntentsLastWins(_, _, _)
ScanIntentsLastWins(table, i, input) ==
    IF i > Len(table) THEN null
    ELSE LET later == ScanIntentsLastWins(table, i + 1, input)
         IN  IF later # null THEN later
             ELSE IF \E p \in DOMAIN table[i].patterns :
                        test(table[i].patterns[p], input)
                  THEN table[i].name
                  ELSE null

\* the loops of detectIntent over the entries of the table, from entry i on
RECURSIVE ScanIntents(_, _, _)
ScanIntents(table, i, input) ==
    IF i > Len(table) THEN null
    ELSE IF \E p \in DOMAIN table[i].patterns : test(table[i].patterns[p], input)
         THEN table[i].name
         ELSE ScanIntents(table, i + 1, input)

\* detectIntent(input) on every table and trimmed input of the model,
\* evaluated once
DetectIntentCache ==
    [table \in Tables |->
        [input \in TrimmedInputs |-> ScanIntents(table, 1, input)]]

\* detectIntent falling back on the intent of the previous turn
detectIntentOrLast(input) ==
    IF DetectIntentCache[intents][input] = null
    THEN context.lastIntent
    ELSE DetectIntentCache[intents][input]

detectIntent(input) == DetectIntentCache[intents][input]

\* Math.random() = k / RandomSteps, a value of [0, 1)
RandomDraws == 0..(RandomSteps - 1)

\* getResponse with Math.round in place of Math.floor
getResponseRound(intent, k) ==
    LET found == {i \in DOMAIN intents : intents[i].name = intent}
    IN  IF found = {} THEN getDefaultResponse
        ELSE LET responses == intents[CHOOSE i \in found : TRUE].responses
                 index == (2 * k * Len(responses) + RandomSteps) \div (2 * RandomSteps)
             IN  IF index + 1 \in DOMAIN responses
                 THEN JsString(responses[index + 1])
                 ELSE JsUndefined

getResponse(intent, k) ==
    LET found == {i \in DOMAIN intents : intents[i].name = intent}
    IN  IF found = {} THEN getDefaultResponse
        ELSE LET responses == intents[CHOOSE i \in found : TRUE].responses
                 index == (k * Len(responses)) \div RandomSteps
             IN  IF index + 1 \in DOMAIN responses
                 THEN JsString(responses[index + 1])
                 ELSE JsUndefined

\* the question keywords without 'how'
KeywordsQuestionWithoutHow == <<W.what, W.why, W.when, W.where, W.who, W.qmark>>

KeywordsQuestion == <<W.what, W.how, W.why, W.when, W.where, W.who, W.qmark>>
KeywordsTechnical == <<W.api, W.database, W.server, W.config, W.setup>>
KeywordsAction == <<W.create, W.make, W.build, W.generate, W.show, W.explain>>

\* keywords.some(kw => input.toLowerCase().includes(kw))
SomeKeyword(keywords, input) ==
    \E i \in DOMAIN keywords : includes(toLowerCase(input), keywords[i])

\* the keyword tests with technical tried before question
classifyTechnicalFirst(input) ==
    IF SomeKeyword(KeywordsTechnical, input) THEN "technical"
    ELSE IF SomeKeyword(KeywordsQuestion, input) THEN "question"
    ELSE IF SomeKeyword(KeywordsAction, input) THEN "action"
    ELSE "general"

\* the if / else if chain of getIntelligentFallback
classify(input) ==
    IF SomeKeyword(KeywordsQuestion, input) THEN "question"
    ELSE IF SomeKeyword(KeywordsTechnical, input) THEN "technical"
    ELSE IF SomeKeyword(KeywordsAction, input) THEN "action"
    ELSE "general"

\* the responseType of every trimmed input of the model, evaluated once
ResponseTypeCache == [input \in TrimmedInputs |-> classify(input)]

responseType(input) == ResponseTypeCache[input]

\* the interpolation echoing the lower-cased copy used for the keyword tests
QuotedLowerCase(input) == <<"\"">> \o toLowerCase(input) \o <<"\"">>

\* "${input}" in a fallback template
Quoted(input) == <<"\"">> \o input \o <<"\"">>

fallbacks(input) ==
    [question |-> <<QuestionFallbackHead>> \o Quoted(input) \o <<QuestionFallbackTail>>,
     technical |-> <<TechnicalFallbackHead>> \o Quoted(input) \o <<TechnicalFallbackTail>>,
     action |-> <<ActionFallbackHead>> \o Quoted(input) \o <<ActionFallbackTail>>,
     general |-> <<GeneralFallbackHead>> \o Quoted(input) \o <<GeneralFallbackTail>>]

getIntelligentFallback(input) == JsString(fallbacks(input)[responseType(input)])

\* process without its guard
IsDefaultCaseNever(userInput) == FALSE

\* the guard without its typeof test
IsDefaultCaseFalsyOnly(userInput) == Falsy(userInput)

\* the guard without its !userInput test
IsDefaultCaseTypeOnly(userInput) == TypeOf(userInput) # "string"

\* the guard of process: !userInput || typeof userInput !== 'string'
IsDefaultCase(userInput) == Falsy(userInput) \/ TypeOf(userInput) # "string"

\* the user turn written over a history read as empty
PushUserOnEmpty(input) ==
    <<[role |-> "user", content |-> JsString(input)]>>

\* this.context.conversationHistory.push({role: 'user', ...})
PushUser(input) ==
    Append(context.conversationHistory, [role |-> "user", content |-> JsString(input)])

\* the if (intent) branch without the assignment to lastIntent
RecordIntentKeepsLastIntent(pushed, intent, response) ==
    [lastIntent |-> context.lastIntent,
     conversationHistory |->
        Append(pushed, [role |-> "assistant", content |-> response, intent |-> intent])]

\* the if (intent) branch: lastIntent and the assistant turn, after the user turn
RecordIntent(pushed, intent, response) ==
    [lastIntent |-> intent,
     conversationHistory |->
        Append(pushed, [role |-> "assistant", content |-> response, intent |-> intent])]

\* process(userInput) with Math.random() = k / RandomSteps: what it returns (or
\* throws), the context it leaves, and its local constant intent ("unset" when
\* detectIntent is not reached)
process(userInput, k) ==
    IF IsDefaultCase(userInput)
    THEN [ret |-> getDefaultResponse, context |-> context, intent |-> "unset"]
    ELSE IF userInput.type # "string"
    THEN [ret |-> Thrown("TypeError"), context |-> context, intent |-> "unset"]
    ELSE
    LET input == TrimCache[userInput.chars]
        pushed == PushUser(input)
        intent == detectIntent(input)
    IN  IF intent # null
        THEN LET response == getResponse(intent, k)
             IN  [ret |-> response,
                  context |-> RecordIntent(pushed, intent, response),
                  intent |-> intent]
        ELSE [ret |-> getIntelligentFallback(input),
              context |-> [context EXCEPT !.conversationHistory = pushed],
              intent |-> intent]

getHistory == context.conversationHistory

----------------------------------------------------------------------------
(* The server of src/src/index.js: POST /api/chat and the WebSocket *)

\* the requests and the WebSocket clients of the model
Reqs == {"req1", "req2"}
Clients == {"ws1", "ws2"}

\* requests and frames received by the server in a behaviour of the model
MaxEvents == 2

\* pongs received from one client in a behaviour of the model
MaxPongs == 2

\* message.length > 10000
MaxMessageLength == 10000

\* data.length > 100000
MaxFrameLength == 100000

\* MAX_REQUEST_BODY_SIZE, the environment variable not set
MaxRequestBodySize == 1024 * 1024

\* the sizes of the chunks a request body arrives in, at most
ChunkLengths == {MaxRequestBodySize \div 2, MaxRequestBodySize + 1}

\* an object with the own properties props
JsObjectWith(props) == [type |-> "object", props |-> props]

\* v[name], and what const {name} = v binds
Property(v, name) ==
    IF v.type \in {"null", "undefined"} THEN Thrown("TypeError")
    ELSE IF v.type = "object" /\ "props" \in DOMAIN v /\ name \in DOMAIN v.props
    THEN v.props[name]
    ELSE JsUndefined

\* a text on the wire: its length and what JSON.parse makes of it
Wire(len, parsed) == [length |-> len, parsed |-> parsed]

\* {"message":"..."} and {"content":"..."}: 14 characters around the string
WireString(name, s) ==
    Wire(14 + length(s), JsObjectWith(name :> JsString(s)))

\* the texts received: '{bad', 'null', '{}', '{"<name>":42}' and
\* '{"<name>":"<s>"}' for the strings s
WireTexts(name, strings) ==
    {Wire(4, Thrown("SyntaxError")), Wire(4, JsNull),
     Wire(2, JsObjectWith(<<>>)), Wire(14, JsObjectWith(name :> JsNumber(42)))}
    \cup {WireString(name, s) : s \in strings}

\* the bodies of the POST /api/chat requests of the model
HttpBodies ==
    WireTexts("message",
              {In.blank, In.hello, Long.hello_10000, Long.hello_10001})

\* the requests: a JSON body with the JSON content type, and one without it
HttpRequests ==
    {[contentType |-> "application/json", body |-> b] : b \in HttpBodies}
    \cup {[contentType |-> "text/plain", body |-> WireString("message", In.hello)]}

\* requests failing none, one or several of the tests of the 'end' listener,
\* and requests with a body at and above the size limit
ChatRequests ==
    {[contentType |-> "application/json", body |-> b] :
        b \in {Wire(0, Thrown("SyntaxError"))} \cup
              WireTexts("message",
                        {In.blank, In.hello, Long.spaces_10001, Long.hello_10001,
                         Long.hello_1048562, Long.hello_1048563})}
    \cup {[contentType |-> "text/plain", body |-> b] :
            b \in {Wire(4, Thrown("SyntaxError")), Wire(4, JsNull),
                   WireString("message", In.hello),
                   WireString("message", Long.hello_1048563)}}

\* the frames of the WebSocket clients of the model
WsFrames ==
    WireTexts("content",
              {<<>>, In.blank, In.hello, In.asdkjalksdj,
               Long.hello_10001, Long.hello_99986, Long.hello_99987})

\* safeParseJSON(str)
safeParseJSON(str) ==
    IF str.parsed.type = "throw"
    THEN [data |-> JsNull, error |-> str.parsed]
    ELSE [data |-> str.parsed, error |-> JsNull]

\* the handler makes no call to nlp.process
NoCall == [type |-> "none"]

\* the length test of handleChatAPI left out
TooLongNever(message) == FALSE

\* message.length > 10000
TooLong(message) == length(message.chars) > MaxMessageLength

\* res.writeHead(statusCode, headers); res.end(...) on the response of the
\* request q: writeHead throws once a response has been written, and so does
\* the writeHead(500) of the catch block
sendJSONResponse(q, statusCode) ==
    IF q.responses = <<>>
    THEN [q EXCEPT !.responses = <<statusCode>>, !.attempts = @ + 1]
    ELSE [q EXCEPT !.attempts = @ + 2, !.phase = "threw"]

\* sendErrorResponse(res, statusCode, message, details, requestId)
sendErrorResponse(q, statusCode, details) ==
    LET sent == sendJSONResponse(q, statusCode)
    IN  IF sent.phase = "threw" THEN sent ELSE [sent EXCEPT !.detail = details]

\* the 'data' listener with the size test left out
chatDataUnlimited(q, n) == [q EXCEPT !.bodySize = @ + n]

\* the 'data' listener of handleChatAPI on a chunk of n bytes
chatData(q, n) ==
    LET counted == [q EXCEPT !.bodySize = @ + n]
    IN  IF counted.bodySize > MaxRequestBodySize
        THEN LET sent == sendErrorResponse(counted, 413, "Max size")
             IN  IF sent.phase = "threw" THEN sent
                 ELSE [sent EXCEPT !.phase = "destroyed"]
        ELSE counted

\* the 'error' listener createServer registers on the request
serverRequestError(q) == sendErrorResponse(q, 500, "error.message")

\* the 'error' listener handleChatAPI registers on the request
chatRequestError(q) == sendErrorResponse(q, 500, "error.message")

\* the 'end' listener of handleChatAPI up to its call of nlp.process: the
\* status and details of the error response it sends and NoCall, or 200 and
\* the argument of the call; status 0 when it throws before sending anything
chatEnd(req) ==
    IF req.contentType # "application/json"
    THEN [status |-> 415, call |-> NoCall,
          detail |-> "Content-Type must be application/json"]
    ELSE LET parsed == safeParseJSON(req.body)
         IN  IF parsed.error # JsNull
             THEN [status |-> 400, call |-> NoCall, detail |-> "parseError.message"]
             ELSE LET message == Property(parsed.data, "message")
                  IN  IF message.type = "throw"
                      THEN [status |-> 0, call |-> NoCall, detail |-> ""]
                      ELSE IF TypeOf(message) # "string"
                      THEN [status |-> 400, call |-> NoCall,
                            detail |-> "message field must be a string"]
                      ELSE IF length(TrimCache[message.chars]) = 0
                      THEN [status |-> 400, call |-> NoCall,
                            detail |-> "message cannot be empty"]
                      ELSE IF TooLong(message)
                      THEN [status |-> 400, call |-> NoCall,
                            detail |-> "message too long (max 10000 characters)"]
                      ELSE [status |-> 200, call |-> message, detail |-> ""]

\* the 'message' listener with the TypeError of a null message not caught
wsMessageUncaught(data) ==
    IF data.length > MaxFrameLength
    THEN [type |-> "error", call |-> NoCall]
    ELSE LET parsed == safeParseJSON(data)
         IN  IF parsed.error # JsNull
             THEN [type |-> "error", call |-> NoCall]
             ELSE LET content == Property(parsed.data, "content")
                  IN  IF content.type = "throw"
                      THEN [type |-> "none", call |-> NoCall]
                      ELSE IF Falsy(content) \/ TypeOf(content) # "string"
                      THEN [type |-> "error", call |-> NoCall]
                      ELSE IF length(TrimCache[content.chars]) = 0
                      THEN [type |-> "error", call |-> NoCall]
                      ELSE [type |-> "message",
                            call |-> JsString(TrimCache[content.chars])]

\* the 'message' listener of a WebSocket up to its call of nlp.process: the
\* type of the frame it sends, and the argument of the call or NoCall; the
\* TypeError of message.content on null is caught and answered by an error frame
wsMessage(data) ==
    IF data.length > MaxFrameLength
    THEN [type |-> "error", call |-> NoCall]
    ELSE LET parsed == safeParseJSON(data)
         IN  IF parsed.error # JsNull
             THEN [type |-> "error", call |-> NoCall]
             ELSE LET content == Property(parsed.data, "content")
                  IN  IF content.type = "throw"
                      THEN [type |-> "error", call |-> NoCall]
                      ELSE IF Falsy(content) \/ TypeOf(content) # "string"
                      THEN [type |-> "error", call |-> NoCall]
                      ELSE IF length(TrimCache[content.chars]) = 0
                      THEN [type |-> "error", call |-> NoCall]
                      ELSE [type |-> "message",
                            call |-> JsString(TrimCache[content.chars])]

\* a request not yet received, and a client not yet connected
NoRequest ==
    [phase |-> "none", contentType |-> "", body |-> Wire(0, JsUndefined),
     bodySize |-> 0, responses |-> <<>>, attempts |-> 0, detail |-> "",
     called |-> 0]

\* a request the createServer callback has passed to handleChatAPI
Opened(req) ==
    [phase |-> "receiving", contentType |-> req.contentType, body |-> req.body,
     bodySize |-> 0, responses |-> <<>>, attempts |-> 0, detail |-> "",
     called |-> 0]

\* a request whose listeners will not run again: the body is garbage
Finished(q) == [q EXCEPT !.body = Wire(0, JsUndefined), !.bodySize = 0]
NoSocket ==
    [state |-> "none", received |-> 0, sent |-> 0,
     lastOut |-> [type |-> "none", content |-> JsUndefined],
     isAlive |-> "undefined", unanswered |-> 0, pongs |-> 0]

\* the module-level state after the module has been loaded: the counter of
\* connections, the shutdown flag, the heartbeat interval, the number of
\* force-shutdown timers armed, the WebSocket server, the HTTP server, and
\* the code the process has exited with
Started ==
    [wsConnectionCount |-> 0, isShuttingDown |-> FALSE, heartbeat |-> "armed",
     forceTimers |-> 0, wss |-> "open", http |-> "listening", exit |-> "none"]

\* the sockets of wss.clients: connected, 'close' not yet emitted
InClients(s) == s.state \in {"open", "closing", "terminated"}

\* the 'pong' listener doing nothing
wsPongIgnored(s) == s

\* the 'pong' listener of a WebSocket
wsPong(s) == [s EXCEPT !.isAlive = "true"]

\* the heartbeat without its isAlive test
heartbeatNeverTerminates(s) ==
    [s EXCEPT !.isAlive = "false",
              !.unanswered = IF s.state = "open" THEN @ + 1 ELSE @]

\* the body of the heartbeat interval for one socket of wss.clients:
\* ws.terminate() destroys the socket, 'close' being emitted later, and
\* ws.ping() sends a ping frame on an open socket
heartbeat(s) ==
    IF s.isAlive = "false"
    THEN [s EXCEPT !.state = "terminated"]
    ELSE [s EXCEPT !.isAlive = "false",
                   !.unanswered = IF s.state = "open" THEN @ + 1 ELSE @]

\* the 'close' listener not counting down
wsCloseKeepsCount(count) == count

\* the 'close' listener of a WebSocket: Math.max(0, wsConnectionCount - 1)
wsClose(count) == IF count - 1 > 0 THEN count - 1 ELSE 0


----------------------------------------------------------------------------
(* The state machine *)

NonStringInputs == {JsNull, JsUndefined, JsNumber(0), JsNumber(42), JsObject}

Inputs == {JsString(s) : s \in StringInputs} \cup NonStringInputs

\* an input for each intent, one no intent matches, a blank string, the empty
\* string and a non-string
SampleInputs ==
    {JsString(In.hello), JsString(In.help), JsString(In.Deploy_now),
     JsString(In.create_an_app), JsString(In.docker), JsString(In.mobile_tips),
     JsString(In.ai), JsString(In.who_is_online), JsString(In.asdkjalksdj),
     JsString(In.blank), JsString(<<>>), JsNumber(42)}

\* what process(v) can return and detect in the current state, for every
\* input value: one pair for each random draw
PossibleOutcomes ==
    [v \in Inputs |->
        {<<process(v, k).ret, process(v, k).intent>> : k \in RandomDraws}]

\* new NLPProcessor() with the table as written: the constructor stores the
\* table and the empty context, checks nothing and does not throw
Constructed(table) ==
    /\ intents = table
    /\ context = EmptyContext
    /\ op = "constructor"
    /\ arg = JsUndefined
    /\ ret = JsUndefined
    /\ detected = "unset"
    /\ calls = 0
    /\ requests = [r \in Reqs |-> NoRequest]
    /\ sockets = [c \in Clients |-> NoSocket]
    /\ events = 0
    /\ served = <<>>
    /\ server = Started

Init ==
    /\ nodeEnv \in NodeEnvs
    /\ Constructed(Intents(nodeEnv))
    /\ pristine = <<>>

\* the new instance, with what process can return for each input noted
InitOfOutcomes ==
    /\ nodeEnv \in NodeEnvs
    /\ Constructed(Intents(nodeEnv))
    /\ pristine = PossibleOutcomes

\* the instance of a source whose table is as shipped, or has the response
\* list of deploy left empty
InitOfTables ==
    /\ nodeEnv \in NodeEnvs
    /\ \E table \in {Intents(nodeEnv), WithoutResponses(Intents(nodeEnv), 3)} :
          Constructed(table)
    /\ pristine = <<>>

\* a call of process that takes the first greeting out of the table
\* (responses.shift()) when it answers with a greeting
NlpCallShiftingResponses(userInput, k) ==
    LET r == process(userInput, k)
    IN  /\ op' = "process"
        /\ arg' = userInput
        /\ calls' = calls + 1
        /\ context' = r.context
        /\ ret' = r.ret
        /\ detected' = r.intent
        /\ intents' = IF r.intent = "greeting"
                      THEN [intents EXCEPT ![1].responses = Tail(@)]
                      ELSE intents
        /\ UNCHANGED <<nodeEnv, pristine>>

\* one call nlp.process(userInput), run to its return
NlpCall(userInput, k) ==
    LET r == process(userInput, k)
    IN  /\ op' = "process"
        /\ arg' = userInput
        /\ calls' = calls + 1
        /\ context' = r.context
        /\ ret' = r.ret
        /\ detected' = r.intent
        /\ UNCHANGED <<intents, nodeEnv, pristine>>

Process(userInput) ==
    /\ calls < MaxCalls
    /\ \E k \in RandomDraws : NlpCall(userInput, k)
    /\ UNCHANGED serverVars

GetHistory ==
    /\ op' = "getHistory"
    /\ ret' = JsArray(getHistory)
    /\ UNCHANGED <<intents, context, nodeEnv, pristine, arg, detected, calls>>
    /\ UNCHANGED serverVars

GetDefaultResponse ==
    /\ op' = "getDefaultResponse"
    /\ ret' = getDefaultResponse
    /\ UNCHANGED <<intents, context, nodeEnv, pristine, arg, detected, calls>>
    /\ UNCHANGED serverVars

ClearContext ==
    /\ context' = ClearedContext
    /\ op' = "clearContext"
    /\ ret' = JsUndefined
    /\ calls' = 0
    /\ UNCHANGED <<intents, nodeEnv, pristine, arg, detected>>
    /\ UNCHANGED serverVars

Next ==
    \/ \E userInput \in Inputs : Process(userInput)
    \/ GetHistory
    \/ ClearContext

Spec == Init /\ [][Next]_vars

SpecOfTables == InitOfTables /\ [][Next]_vars

\* the example commands of the guide, each sent to process
NextOfExamples == \E s \in DocExamples : Process(JsString(s))

SpecOfExamples == Init /\ [][NextOfExamples]_vars

\* process called with inputs around the fallback keywords
KeywordInputs ==
    {JsString(s) : s \in {In.show_me, More.show_config, More.SHOW_ALL,
                          More.show_and_build, More.shower, In.explain_this,
                          In.create_stuff, In.server_and_build, In.asdkjalksdj}}

NextOfKeywords == \E userInput \in KeywordInputs : Process(userInput)

SpecOfKeywords == Init /\ [][NextOfKeywords]_vars

\* process called with inputs starting with the letters of a greeting
GreetingInputs ==
    {JsString(s) : s \in {In.history_of_docker, More.hide_the_container,
                          More.Heyday_deploy, More.greetingsdocker,
                          More.hello_help, More.pad_History_of_ai, In.pad_hi,
                          In.Hello_there, In.docker, In.help}}

NextOfGreetings == \E userInput \in GreetingInputs : Process(userInput)

SpecOfGreetings == Init /\ [][NextOfGreetings]_vars

\* the four public methods of the instance
NextOfMethods ==
    \/ \E userInput \in SampleInputs : Process(userInput)
    \/ GetHistory
    \/ GetDefaultResponse
    \/ ClearContext

SpecOfMethods == Init /\ [][NextOfMethods]_vars

\* the engine driven by the sample inputs, with the outcomes of the new
\* instance noted for every input
NextOfOutcomes ==
    \/ \E userInput \in SampleInputs : Process(userInput)
    \/ GetHistory
    \/ ClearContext

SpecOfOutcomes == InitOfOutcomes /\ [][NextOfOutcomes]_vars

----------------------------------------------------------------------------
(* The server: each listener runs to its end before another one starts *)

\* the createServer callback on a POST /api/chat request: the listeners of
\* handleChatAPI are registered (req1 names the request received first)
HttpOpen(r, req) ==
    /\ events < MaxEvents
    /\ requests[r].phase = "none"
    /\ r = "req2" => requests["req1"].phase # "none"
    /\ requests' = [requests EXCEPT ![r] = Opened(req)]
    /\ events' = events + 1
    /\ UNCHANGED <<nlpVars, sockets, served, server>>

\* the 'data' listener of handleChatAPI on the next chunk of the body
HttpData(r) ==
    /\ requests[r].phase = "receiving"
    /\ requests[r].bodySize < requests[r].body.length
    /\ \E most \in ChunkLengths :
          LET left == requests[r].body.length - requests[r].bodySize
              n == IF left < most THEN left ELSE most
              q == chatData(requests[r], n)
          IN  requests' = [requests EXCEPT ![r] =
                    [q EXCEPT !.body = IF q.phase = "receiving" THEN @
                                       ELSE Wire(0, JsUndefined)]]
    /\ UNCHANGED <<nlpVars, sockets, events, served, server>>

\* a POST /api/chat request whose body arrives in one chunk: the createServer
\* callback and the 'data' listener
HttpRequest(r, req) ==
    /\ events < MaxEvents
    /\ requests[r].phase = "none"
    /\ r = "req2" => requests["req1"].phase # "none"
    /\ req.body.length <= MaxRequestBodySize
    /\ requests' = [requests EXCEPT ![r] = chatData(Opened(req), req.body.length)]
    /\ events' = events + 1
    /\ UNCHANGED <<nlpVars, sockets, served, server>>

\* the 'end' listener of handleChatAPI
HttpEnd(r) ==
    /\ requests[r].phase = "receiving"
    /\ requests[r].bodySize = requests[r].body.length
    /\ LET q == requests[r]
           out == chatEnd(q)
       IN  IF out.call = NoCall
           THEN /\ requests' = [requests EXCEPT ![r] =
                        IF out.status = 0
                        THEN Finished([q EXCEPT !.phase = "threw"])
                        ELSE Finished(sendErrorResponse(
                                [q EXCEPT !.phase = "ended"], out.status, out.detail))]
                /\ UNCHANGED <<nlpVars, served>>
           ELSE \E k \in RandomDraws :
                /\ NlpCall(out.call, k)
                /\ requests' = [requests EXCEPT ![r] =
                        LET called == [q EXCEPT !.phase = "ended", !.called = @ + 1]
                        IN  Finished(IF ret'.type = "throw"
                                     THEN sendErrorResponse(called, 500,
                                                            "nlpError.message")
                                     ELSE sendJSONResponse(called, 200))]
                /\ served' = Append(served,
                        [via |-> "http", from |-> r, input |-> out.call])
    /\ UNCHANGED <<sockets, events, server>>

\* the request stream emits 'error' before its end: the listener of
\* createServer, then the listener of handleChatAPI
HttpError(r) ==
    /\ requests[r].phase = "receiving"
    /\ requests' = [requests EXCEPT ![r] =
            LET first == serverRequestError(@)
            IN  Finished(IF first.phase = "threw" THEN first
                         ELSE chatRequestError(first))]
    /\ UNCHANGED <<nlpVars, sockets, events, served, server>>

\* the 'connection' listener of the WebSocket server: the welcome frame
\* (ws1 names the client connected first)
WsConnection(c) ==
    /\ server.wss = "open"
    /\ sockets[c].state = "none"
    /\ c = "ws2" => sockets["ws1"].state # "none"
    /\ server' = [server EXCEPT !.wsConnectionCount = @ + 1]
    /\ op' = "getDefaultResponse"
    /\ ret' = getDefaultResponse
    /\ sockets' = [sockets EXCEPT ![c] =
            [state |-> "open", received |-> 0, sent |-> 1,
             lastOut |-> [type |-> "message", content |-> ret'],
             isAlive |-> "true", unanswered |-> 0, pongs |-> 0]]
    /\ UNCHANGED <<intents, context, nodeEnv, pristine, arg, detected, calls>>
    /\ UNCHANGED <<requests, events, served>>

\* the 'message' listener of a WebSocket, on the frame data
WsMessage(c, data) ==
    /\ events < MaxEvents
    /\ sockets[c].state = "open"
    /\ LET out == wsMessage(data)
       IN  IF out.call = NoCall
           THEN /\ sockets' = [sockets EXCEPT
                        ![c].received = @ + 1,
                        ![c].sent = IF out.type = "none" THEN @ ELSE @ + 1,
                        ![c].lastOut =
                            IF out.type = "none" THEN @
                            ELSE [type |-> out.type, content |-> JsUndefined]]
                /\ UNCHANGED <<nlpVars, served>>
           ELSE \E k \in RandomDraws :
                /\ NlpCall(out.call, k)
                /\ sockets' = [sockets EXCEPT
                        ![c].received = @ + 1,
                        ![c].sent = @ + 1,
                        ![c].lastOut =
                            IF ret'.type = "throw"
                            THEN [type |-> "error", content |-> JsUndefined]
                            ELSE [type |-> "message", content |-> ret']]
                /\ served' = Append(served,
                        [via |-> "ws", from |-> c, input |-> out.call])
    /\ events' = events + 1
    /\ UNCHANGED <<requests, server>>

\* a pong frame answering a ping arrives: the 'pong' listener
WsPong(c) ==
    /\ sockets[c].state = "open"
    /\ sockets[c].unanswered > 0
    /\ sockets[c].pongs < MaxPongs
    /\ sockets' = [sockets EXCEPT
            ![c] = [wsPong(@) EXCEPT !.unanswered = @ - 1, !.pongs = @ + 1]]
    /\ UNCHANGED <<nlpVars, requests, events, served, server>>

\* the heartbeat interval fires: its callback on every socket of wss.clients
Heartbeat ==
    /\ server.heartbeat = "armed"
    /\ \E c \in Clients : InClients(sockets[c])
    /\ sockets' = [c \in Clients |->
            IF InClients(sockets[c]) THEN heartbeat(sockets[c]) ELSE sockets[c]]
    /\ UNCHANGED <<nlpVars, requests, events, served, server>>

\* 'close' is emitted on a WebSocket, after the client left, after
\* terminate() or after close(1001): the socket leaves wss.clients and the
\* 'close' listener runs (no listener runs once the process has exited)
WsClose(c) ==
    /\ server.exit = "none"
    /\ InClients(sockets[c])
    /\ sockets' = [sockets EXCEPT ![c].state = "closed"]
    /\ server' = [server EXCEPT !.wsConnectionCount = wsClose(@)]
    /\ UNCHANGED <<nlpVars, requests, events, served>>

\* gracefulShutdown without the test of isShuttingDown
gracefulShutdownAgain(srv, socks) ==
    [server |-> [srv EXCEPT
                    !.isShuttingDown = TRUE,
                    !.forceTimers = @ + 1,
                    !.heartbeat = "cleared",
                    !.wss = "closing"],
     sockets |-> [c \in Clients |->
                    IF socks[c].state = "open"
                    THEN [socks[c] EXCEPT
                            !.state = "closing", !.sent = @ + 1,
                            !.lastOut = [type |-> "system", content |-> JsUndefined]]
                    ELSE socks[c]]]

\* gracefulShutdown(signal) up to its call of wss.close: the force-shutdown
\* timer is armed, the heartbeat interval is cleared, and every open client
\* is sent the notice and closed with code 1001
gracefulShutdown(srv, socks) ==
    IF srv.isShuttingDown
    THEN [server |-> srv, sockets |-> socks]
    ELSE [server |-> [srv EXCEPT
                        !.isShuttingDown = TRUE,
                        !.forceTimers = @ + 1,
                        !.heartbeat = "cleared",
                        !.wss = "closing"],
          sockets |-> [c \in Clients |->
                        IF socks[c].state = "open"
                        THEN [socks[c] EXCEPT
                                !.state = "closing", !.sent = @ + 1,
                                !.lastOut = [type |-> "system",
                                             content |-> JsUndefined]]
                        ELSE socks[c]]]

\* the listeners of SIGTERM and SIGINT
GracefulShutdown(signal) ==
    /\ server.exit = "none"
    /\ server' = gracefulShutdown(server, sockets).server
    /\ sockets' = gracefulShutdown(server, sockets).sockets
    /\ UNCHANGED <<nlpVars, requests, events, served>>

\* the listener of 'uncaughtException' (the counter of errors is left out)
UncaughtException ==
    /\ server.exit = "none"
    /\ IF nodeEnv = "production" /\ ~server.isShuttingDown
       THEN /\ server' = gracefulShutdown(server, sockets).server
            /\ sockets' = gracefulShutdown(server, sockets).sockets
       ELSE UNCHANGED <<sockets, server>>
    /\ UNCHANGED <<nlpVars, requests, events, served>>

\* the WebSocket server emits 'close' once wss.close was called and the last
\* client has closed: the callback of wss.close calls server.close
WssClosed ==
    /\ server.exit = "none"
    /\ server.wss = "closing"
    /\ \A c \in Clients : ~InClients(sockets[c])
    /\ server' = [server EXCEPT
            !.wss = "closed", !.heartbeat = "cleared", !.http = "closing"]
    /\ UNCHANGED <<nlpVars, requests, sockets, events, served>>

\* the callback of server.close reporting success whatever err is
serverClosedIgnoringError(srv, err) ==
    [srv EXCEPT !.http = IF err THEN @ ELSE "closed", !.exit = "0"]

\* the callback of server.close: exit(1) when err is set, exit(0) otherwise
serverClosed(srv, err) ==
    [srv EXCEPT !.http = IF err THEN @ ELSE "closed",
                !.exit = IF err THEN "1" ELSE "0"]

\* the callback of server.close runs, err being set when the server was not
\* running: the timer is cleared and the process exits
HttpServerClosed(err) ==
    /\ server.exit = "none"
    /\ server.http = "closing"
    /\ server' = serverClosed(server, err)
    /\ UNCHANGED <<nlpVars, requests, sockets, events, served>>

\* the force-shutdown timer fires
ForceShutdown ==
    /\ server.exit = "none"
    /\ server.forceTimers > 0
    /\ server' = [server EXCEPT !.exit = "1"]
    /\ UNCHANGED <<nlpVars, requests, sockets, events, served>>

NextOfServer ==
    \/ \E r \in Reqs, req \in HttpRequests : HttpRequest(r, req)
    \/ \E r \in Reqs : HttpEnd(r)
    \/ \E c \in Clients : WsConnection(c)
    \/ \E c \in Clients, data \in WsFrames : WsMessage(c, data)

SpecOfServer == Init /\ [][NextOfServer]_vars

\* the WebSocket connections from 'connection' to 'close', with the heartbeat
\* and the shutdown of the server
NextOfSockets ==
    \/ \E c \in Clients : WsConnection(c)
    \/ \E c \in Clients : WsMessage(c, WireString("content", In.hello))
    \/ \E c \in Clients : WsPong(c)
    \/ Heartbeat
    \/ \E c \in Clients : WsClose(c)
    \/ \E signal \in {"SIGTERM", "SIGINT"} : GracefulShutdown(signal)

SpecOfSockets == Init /\ [][NextOfSockets]_vars

\* the server from its start to the exit of the process
NextOfShutdown ==
    \/ \E c \in Clients : WsConnection(c)
    \/ \E c \in Clients : WsMessage(c, WireString("content", In.hello))
    \/ Heartbeat
    \/ \E c \in Clients : WsClose(c)
    \/ \E signal \in {"SIGTERM", "SIGINT"} : GracefulShutdown(signal)
    \/ UncaughtException
    \/ WssClosed
    \/ \E err \in BOOLEAN : HttpServerClosed(err)
    \/ ForceShutdown

SpecOfShutdown == Init /\ [][NextOfShutdown]_vars

\* the POST /api/chat requests alone, from the first chunk to the response
NextOfRequests ==
    \/ \E r \in Reqs, req \in ChatRequests : HttpOpen(r, req)
    \/ \E r \in Reqs : HttpData(r)
    \/ \E r \in Reqs : HttpEnd(r)
    \/ \E r \in Reqs : HttpError(r)

SpecOfRequests == Init /\ [][NextOfRequests]_vars

----------------------------------------------------------------------------
(* A caller that keeps the array getHistory returned *)

\* an entry written by the caller, not by process
ForgedTurn == [role |-> "system", content |-> JsString(In.hello)]

\* nlp.getHistory().push(ForgedTurn): the array returned is
\* this.context.conversationHistory itself
CallerPush ==
    /\ op = "getHistory"
    /\ Len(getHistory) < 2 * MaxCalls
    /\ context' = [context EXCEPT !.conversationHistory = Append(@, ForgedTurn)]
    /\ ret' = JsArray(context'.conversationHistory)
    /\ UNCHANGED <<intents, nodeEnv, pristine, op, arg, detected, calls>>
    /\ UNCHANGED serverVars

\* nlp.getHistory().splice(0)
CallerSplice ==
    /\ op = "getHistory"
    /\ getHistory # <<>>
    /\ context' = [context EXCEPT !.conversationHistory = <<>>]
    /\ ret' = JsArray(<<>>)
    /\ UNCHANGED <<intents, nodeEnv, pristine, op, arg, detected, calls>>
    /\ UNCHANGED serverVars

NextWithCaller ==
    \/ Next
    \/ CallerPush
    \/ CallerSplice

SpecWithCaller == Init /\ [][NextWithCaller]_vars

----------------------------------------------------------------------------
(* What the properties below speak of *)

\* the declaration order of the intents, as the specification lists it
DeclarationOrder ==
    <<"greeting", "help", "deploy", "code", "docker", "mobile", "ai", "status">>

\* the names of the intents with at least one pattern matching s
MatchingIntents ==
    [table \in {Intents(env) : env \in NodeEnvs} |->
        [s \in TrimmedInputs |->
            {table[i].name : i \in {j \in DOMAIN table :
                \E p \in DOMAIN table[j].patterns : test(table[j].patterns[p], s)}}]]

\* the earliest declared of the names, null when there is none
FirstDeclared(names) ==
    LET at == {i \in DOMAIN DeclarationOrder : DeclarationOrder[i] \in names}
    IN  IF at = {} THEN null
        ELSE DeclarationOrder[CHOOSE i \in at : \A j \in at : i <= j]

\* v is a non-empty string: the input is trimmed and matched
IsNonEmptyString(v) == v.type = "string" /\ v.chars # <<>>

\* the intent the matching rule selects for the string value v
ExpectedIntent(v) == FirstDeclared(MatchingIntents[intents][trim(v.chars)])

ResponsesOf(name) ==
    Range(intents[CHOOSE i \in DOMAIN intents : intents[i].name = name].responses)

\* the last call was process, on a string no intent matches
ReachedFallback ==
    op = "process" /\ IsNonEmptyString(arg) /\ ExpectedIntent(arg) = null

AnyOccurs(keywords, s) ==
    \E kw \in Range(keywords) : includes(toLowerCase(s), kw)

\* the bucket of the stated priority order question > technical > action > general
BucketByPriority ==
    [s \in TrimmedInputs |->
        CASE AnyOccurs(KeywordsQuestion, s) -> "question"
          [] ~AnyOccurs(KeywordsQuestion, s) /\ AnyOccurs(KeywordsTechnical, s) ->
                "technical"
          [] ~AnyOccurs(KeywordsQuestion, s) /\ ~AnyOccurs(KeywordsTechnical, s)
                /\ AnyOccurs(KeywordsAction, s) -> "action"
          [] OTHER -> "general"]

TemplateHead ==
    [question |-> QuestionFallbackHead, technical |-> TechnicalFallbackHead,
     action |-> ActionFallbackHead, general |-> GeneralFallbackHead]

TemplateTail ==
    [question |-> QuestionFallbackTail, technical |-> TechnicalFallbackTail,
     action |-> ActionFallbackTail, general |-> GeneralFallbackTail]

\* text is the fallback template of the bucket
IsTemplateOf(bucket, text) ==
    /\ Len(text) >= 2
    /\ text[1] = TemplateHead[bucket]
    /\ text[Len(text)] = TemplateTail[bucket]

----------------------------------------------------------------------------
(* The properties *)

\* C1 (as stated): after n calls to process and no clearContext, getHistory()
\* has exactly 2n entries, alternating user, assistant and starting with user.
C1_HistoryTwoPerCall ==
    /\ Len(getHistory) = 2 * calls
    /\ \A i \in DOMAIN getHistory :
          getHistory[i].role = IF i % 2 = 1 THEN "user" ELSE "assistant"

\* C2 (as stated): after every call to process, lastIntent describes that call:
\* the matched intent's name, or the no-intent sentinel (null) when none matched.
C2_LastIntentDescribesCall ==
    op = "process" =>
        context.lastIntent =
            IF IsNonEmptyString(arg) THEN ExpectedIntent(arg) ELSE null

\* C2 (amended): a call to process sets lastIntent to the matched intent's name
\* when an intent matches, and leaves lastIntent as it was when no intent
\* matches or the input is empty or not a string.
C2_LastIntentSetOnlyOnMatch ==
    [][calls' = calls + 1 =>
        context'.lastIntent =
            IF IsNonEmptyString(arg') /\ ExpectedIntent(arg') # null
            THEN ExpectedIntent(arg')
            ELSE context.lastIntent]_vars

\* a fallback call made after a greeting: lastIntent still names the greeting
C2_Witness ==
    /\ ReachedFallback
    /\ context.lastIntent = "greeting"

\* C3: process returns a non-empty string for every input value and never
\* throws nor returns undefined.
C3_ProcessTotal ==
    op = "process" => ret.type = "string" /\ ret.chars # <<>>

\* process has answered a whitespace-only string with a non-empty text
C3_Witness ==
    /\ op = "process"
    /\ arg = JsString(In.blank)
    /\ ret.type = "string"
    /\ Len(ret.chars) > 0

C5_ResponseFromIntentList ==
    (op = "process" /\ IsNonEmptyString(arg) /\ ExpectedIntent(arg) # null) =>
        ret \in {JsString(r) : r \in ResponsesOf(ExpectedIntent(arg))}

\* the largest draw on the three greeting responses selects the last of them
C5_Witness ==
    /\ op = "process"
    /\ arg = JsString(In.hello)
    /\ ret = JsString(<<GreetingText3>>)

\* C6: for the empty string and for a non-string, process returns the default
\* template exactly, in every engine state.
C6_DefaultForEmptyOrNonString ==
    (op = "process" /\ ~IsNonEmptyString(arg)) => ret = JsString(<<DefaultText>>)

\* a non-string and the empty string processed by an engine that has a history
C6_Witness ==
    /\ op = "process"
    /\ arg \in {JsNumber(42), JsString(<<>>)}
    /\ context.lastIntent # null
    /\ ret = JsString(<<DefaultText>>)

\* C7: when no intent matches, the template returned is the one of the bucket
\* chosen in the priority order question > technical > action > general.
C7_FallbackBucketByPriority ==
    ReachedFallback =>
        /\ ret.type = "string"
        /\ IsTemplateOf(BucketByPriority[trim(arg.chars)], ret.chars)

\* 'my api?' has a question and a technical keyword and gets the question template
C7_Witness ==
    /\ ReachedFallback
    /\ arg = JsString(In.my_api_q)
    /\ AnyOccurs(KeywordsTechnical, In.my_api_q)
    /\ IsTemplateOf("question", ret.chars)

\* C8 (as stated): the fallback template contains the input exactly as it was
\* passed to process, leading and trailing whitespace included.
C8_FallbackEchoesRawInput ==
    ReachedFallback => includes(ret.chars, arg.chars)

\* C8 (amended): the fallback template contains the trimmed input verbatim.
C8_FallbackEchoesTrimmedInput ==
    ReachedFallback => includes(ret.chars, trim(arg.chars))

\* an input with leading and trailing whitespace answered by the fallback
C8_Witness ==
    /\ ReachedFallback
    /\ arg = JsString(In.pad_asdkjalksdj)
    /\ trim(arg.chars) # arg.chars

\* C9 (as stated): for 'what is a webhook?' process returns the question
\* fallback template containing the input.
C9_WebhookGetsQuestionFallback ==
    (op = "process" /\ arg = JsString(In.what_is_a_webhook)) =>
        /\ IsTemplateOf("question", ret.chars)
        /\ includes(ret.chars, In.what_is_a_webhook)

\* C9 (amended): for 'what is a webhook?' process returns the help response,
\* the help pattern /^what/i matching it; the question template containing the
\* input is what getIntelligentFallback returns for it.
C9_WebhookGetsHelp ==
    (op = "process" /\ arg = JsString(In.what_is_a_webhook)) =>
        /\ ret = JsString(<<HelpText>>)
        /\ detected = "help"
        /\ IsTemplateOf("question", getIntelligentFallback(In.what_is_a_webhook).chars)
        /\ includes(getIntelligentFallback(In.what_is_a_webhook).chars,
                    In.what_is_a_webhook)

\* 'what is a webhook?' processed and recorded as a help turn
C9_Witness ==
    /\ op = "process"
    /\ arg = JsString(In.what_is_a_webhook)
    /\ context.lastIntent = "help"
    /\ getHistory[Len(getHistory)].content = JsString(<<HelpText>>)

\* C10: after clearContext the history is empty, lastIntent is null, and the
\* instance is in the state the constructor leaves, whatever was processed.
C10_ClearContextRestoresFresh ==
    op = "clearContext" =>
        /\ getHistory = <<>>
        /\ context.lastIntent = null
        /\ context = EmptyContext
        /\ intents = Intents(nodeEnv)

\* clearContext called after a greeting had set lastIntent and the history
C10_Witness ==
    /\ op = "clearContext"
    /\ arg = JsString(In.hello)
    /\ detected = "greeting"

\* C11 (as stated): what getHistory() returns gives its caller no way to change
\* the engine's history: the history changes only in a call to process or to
\* clearContext.
C11_HistoryChangesOnlyThroughEngine ==
    [][getHistory' # getHistory =>
        \/ op' = "process" /\ calls' = calls + 1
        \/ op' = "clearContext"]_vars

C13_IntentTableFixed ==
    [][intents' = intents]_vars

\* the table is as constructed after a greeting was answered, the history
\* cleared and the default response asked for
C13_Witness ==
    /\ op = "getDefaultResponse"
    /\ arg = JsString(In.hello)
    /\ getHistory = <<>>
    /\ intents = Intents(nodeEnv)

\* C20: a call to process with the empty string or with a non-string changes
\* nothing: the history and lastIntent are after the call what they were before.
C20_DefaultCallChangesNothing ==
    [][(calls' = calls + 1 /\ ~IsNonEmptyString(arg')) => context' = context]_vars

\* the empty string processed after a greeting: the two turns of the greeting
\* are the whole history
C20_Witness ==
    /\ op = "process"
    /\ arg = JsString(<<>>)
    /\ calls = 2
    /\ Len(getHistory) = 2
    /\ context.lastIntent = "greeting"

IsResponseOf(name) == ret \in {JsString(r) : r \in ResponsesOf(name)}

\* C19 (as stated): each example command the documentation lists under a
\* category is answered with the response of that category: the three Docker
\* examples with the Docker commands, 'How do I start?' with the help list,
\* 'What's the status?' with the system status, 'Machine learning help' with the
\* AI capabilities, 'Responsive design help' with the mobile response.
C19_ExamplesGetTheirCategory ==
    op = "process" =>
        /\ arg \in {JsString(Doc.Help_me_deploy_with_Docker),
                    JsString(Doc.Help_with_Docker),
                    JsString(Doc.Dockerfile_help)} => IsResponseOf("docker")
        /\ arg = JsString(Doc.How_do_I_start) => IsResponseOf("help")
        /\ arg = JsString(Doc.Whats_the_status) => IsResponseOf("status")
        /\ arg = JsString(Doc.Machine_learning_help) => IsResponseOf("ai")
        /\ arg = JsString(Doc.Responsive_design_help) => IsResponseOf("mobile")

\* the turns one call of process on the string value v appends: the user
\* turn with the trimmed input and, when an intent matches, its assistant turn
TurnsOfCall(v) ==
    <<[role |-> "user", content |-> JsString(trim(v.chars))]>>
    \o (IF ExpectedIntent(v) = null THEN <<>>
        ELSE <<[role |-> "assistant", intent |-> ExpectedIntent(v)]>>)

RECURSIVE TurnsOfCalls(_)
TurnsOfCalls(cs) ==
    IF cs = <<>> THEN <<>>
    ELSE TurnsOfCall(Head(cs).input) \o TurnsOfCalls(Tail(cs))

\* a turn of the history without the text of the response
Shape(turn) ==
    IF turn.role = "assistant"
    THEN [role |-> "assistant", intent |-> turn.intent]
    ELSE turn

RECURSIVE Shapes(_)
Shapes(turns) ==
    IF turns = <<>> THEN <<>> ELSE <<Shape(Head(turns))>> \o Shapes(Tail(turns))

\* C15: with the one instance shared by the HTTP requests and the WebSocket
\* clients, the calls of process are serialized: under every interleaving of
\* requests and frames the history is the turns of the first call, then the
\* turns of the second, and so on: the turns of a call are contiguous and no
\* turn is lost.
C15_CallsSerialized ==
    Shapes(getHistory) = TurnsOfCalls(served)

\* a frame of a WebSocket client answered between the arrival and the end of
\* an HTTP request, both with a greeting: four turns, two for each call
C15_Witness ==
    /\ Len(served) = 2
    /\ served[1].via = "ws"
    /\ served[2].via = "http"
    /\ Len(getHistory) = 4

\* body.message is a string, non-empty after trimming, of at most 10,000
\* characters
ValidChatMessage(body) ==
    /\ body.parsed.type = "object"
    /\ "props" \in DOMAIN body.parsed
    /\ "message" \in DOMAIN body.parsed.props
    /\ body.parsed.props.message.type = "string"
    /\ trim(body.parsed.props.message.chars) # <<>>
    /\ length(body.parsed.props.message.chars) <= MaxMessageLength

\* C16 (as stated): for a POST /api/chat request process is called only when
\* body.message is a string, non-empty after trimming, of at most 10,000
\* characters; in every other case an error response is sent and process is
\* not called for the request.
C16_ProcessOnlyOnValidMessage ==
    [][\A r \in Reqs :
        (requests[r].phase = "receiving" /\ requests'[r].phase # "receiving") =>
            /\ requests'[r].called > 0 => ValidChatMessage(requests[r].body)
            /\ ~ValidChatMessage(requests[r].body) =>
                /\ requests'[r].called = 0
                /\ Len(requests'[r].responses) = 1
                /\ requests'[r].responses[1] >= 400]_vars

WellFormedFrame(data) ==
    /\ data.parsed.type = "object"
    /\ "props" \in DOMAIN data.parsed
    /\ "content" \in DOMAIN data.parsed.props
    /\ data.parsed.props.content.type = "string"
    /\ trim(data.parsed.props.content.chars) # <<>>

\* the step sends one frame to client c: a 'message' frame with the result of
\* the one call of process it makes when answered, else an 'error' frame and
\* no call
RepliesOnce(c, answered) ==
    /\ sockets'[c].sent = sockets[c].sent + 1
    /\ IF answered
       THEN /\ sockets'[c].lastOut = [type |-> "message", content |-> ret']
            /\ op' = "process"
            /\ calls' = calls + 1
            /\ Len(served') = Len(served) + 1
       ELSE /\ sockets'[c].lastOut.type = "error"
            /\ served' = served
            /\ context' = context

\* C18 (as stated): for every inbound WebSocket frame the server sends exactly
\* one frame in reply: a 'message' frame with the result of exactly one call of
\* process when the frame is valid JSON with a non-blank string content,
\* otherwise an 'error' frame with no call of process.
C18_OneReplyPerFrame ==
    [][\A c \in Clients :
        sockets'[c].received # sockets[c].received =>
            \A data \in WsFrames :
                WsMessage(c, data) => RepliesOnce(c, WellFormedFrame(data))]_vars

\* C18 (amended): for every inbound WebSocket frame the server sends exactly
\* one frame in reply: a 'message' frame with the result of exactly one call of
\* process when the frame is at most 100,000 long and is valid JSON with a
\* non-blank string content, otherwise an 'error' frame with no call of process.
C18_OneReplyPerFrameWithinSize ==
    [][\A c \in Clients :
        sockets'[c].received # sockets[c].received =>
            \A data \in WsFrames :
                WsMessage(c, data) =>
                    RepliesOnce(c, WellFormedFrame(data)
                                   /\ data.length <= MaxFrameLength)]_vars

\* a client whose first frame was answered by process and whose second frame
\* got an error frame: three frames sent with the welcome
C18_Witness ==
    \E c \in Clients :
        /\ sockets[c].received = 2
        /\ sockets[c].sent = 3
        /\ sockets[c].lastOut.type = "error"
        /\ Len(served) = 1
        /\ served[1].from = c

----------------------------------------------------------------------------
\* what process selects for v in this state: the intent, or the fallback
\* template when no intent matches, or "unset" with the default response
Selection(v) ==
    LET r == process(v, 0)
    IN  [intent |-> r.intent,
         fallback |-> IF r.intent \in {null, "unset"} THEN r.ret ELSE null]

\* the user turn the last call to process appended
LastUserTurn ==
    LET h == getHistory
    IN  IF detected = null THEN h[Len(h)] ELSE h[Len(h) - 1]

\* s neither starts nor ends with whitespace
NoSpaceAtEnds(s) == s = <<>> \/ (~IsSpace(s[1]) /\ ~IsSpace(s[Len(s)]))

\* the last call selected what a call with the trimmed text selects, and
\* logged the trimmed text
SelectsAsTrimmed ==
    /\ Selection(arg) = Selection(JsString(TrimCache[arg.chars]))
    /\ LastUserTurn.role = "user"
    /\ LastUserTurn.content = JsString(TrimCache[arg.chars])
    /\ NoSpaceAtEnds(LastUserTurn.content.chars)

\* C21 (as stated): for every string s, process(s) selects the same intent or
\* fallback bucket as process(trim(s)), and the user turn appended to history
\* holds the trimmed text.
C21_TrimBeforeMatching ==
    (op = "process" /\ arg.type = "string" /\ arg.chars # <<>>)
        => SelectsAsTrimmed

\* C21 (amended): the same for every string whose trimmed text is not empty.
C21_TrimBeforeMatchingUnlessBlank ==
    (op = "process" /\ arg.type = "string" /\ TrimCache[arg.chars] # <<>>)
        => SelectsAsTrimmed

\* a padded greeting was matched and logged without its padding
C21_Witness ==
    /\ op = "process"
    /\ arg = JsString(In.pad_hi)
    /\ detected = "greeting"
    /\ LastUserTurn.content = JsString(<<"h", "i">>)

----------------------------------------------------------------------------
\* whether 'show' occurs in the lower-cased text, for every trimmed input
ShowOccurs == [s \in TrimmedInputs |-> includes(toLowerCase(s), W.show)]

\* whether an action keyword other than 'show' occurs
OtherActionOccurs ==
    [s \in TrimmedInputs |->
        \E kw \in {W.create, W.make, W.build, W.generate, W.explain} :
            includes(toLowerCase(s), kw)]

\* C22: an unmatched input containing 'show' gets the question template, and
\* the action template is returned only to inputs containing create, make,
\* build, generate or explain.
C22_ShowNeverSelectsAction ==
    ReachedFallback =>
        LET s == TrimCache[arg.chars]
        IN  /\ ShowOccurs[s] => IsTemplateOf("question", ret.chars)
            /\ IsTemplateOf("action", ret.chars) => OtherActionOccurs[s]

\* 'show config' has an action and a technical keyword and gets the question
\* template
C22_Witness ==
    /\ ReachedFallback
    /\ arg = JsString(More.show_config)
    /\ ShowOccurs[More.show_config]
    /\ IsTemplateOf("question", ret.chars)

----------------------------------------------------------------------------
\* the lower-cased s starts with w
StartsWith(s, w) == OccursAt(toLowerCase(s), 1, w)

\* C23: an input whose trimmed text begins, in any case, with hi, hello, hey
\* or greetings is classified as greeting, also when the letters only start a
\* longer word.
C23_GreetingPrefixWins ==
    (op = "process" /\ IsNonEmptyString(arg)
     /\ \E w \in {W.hi, W.hello, W.hey, W.greetings} :
            StartsWith(TrimCache[arg.chars], w))
        => detected = "greeting"

\* 'history of docker' was answered as a greeting although docker matches it
C23_Witness ==
    /\ op = "process"
    /\ arg = JsString(In.history_of_docker)
    /\ "docker" \in MatchingIntents[intents][In.history_of_docker]
    /\ detected = "greeting"

----------------------------------------------------------------------------
\* C24: for a POST /api/chat request received completely the 'end' listener
\* sends exactly one response, of status 200, 400, 415 or 500, and throws
\* nothing, whatever JSON value the body parses to.
C24_EndRespondsOnce ==
    [][\A r \in Reqs :
        HttpEnd(r) =>
            /\ requests'[r].phase = "ended"
            /\ requests'[r].attempts = 1
            /\ Len(requests'[r].responses) = 1
            /\ requests'[r].responses[1] \in {200, 400, 415, 500}]_vars

\* C25: at most one response is written for a request and no second
\* writeHead is attempted, also when the request stream emits 'error' or the
\* body size limit is hit.
C25_AtMostOneResponse ==
    \A r \in Reqs :
        /\ requests[r].attempts <= 1
        /\ Len(requests[r].responses) <= 1

----------------------------------------------------------------------------
\* the message of a request body, undefined when the body has none
MessageOf(body) ==
    IF body.parsed.type = "object" /\ "props" \in DOMAIN body.parsed
       /\ "message" \in DOMAIN body.parsed.props
    THEN body.parsed.props.message
    ELSE JsUndefined

\* the tests of the chat endpoint in the stated order, each with whether the
\* request q fails it
OrderedChecks(q) ==
    LET message == MessageOf(q.body)
        isString == message.type = "string"
    IN  <<[fails |-> q.contentType # "application/json", status |-> 415,
           detail |-> "Content-Type must be application/json"],
          [fails |-> q.body.parsed.type = "throw", status |-> 400,
           detail |-> "parseError.message"],
          [fails |-> ~isString, status |-> 400,
           detail |-> "message field must be a string"],
          [fails |-> isString /\ trim(message.chars) = <<>>, status |-> 400,
           detail |-> "message cannot be empty"],
          [fails |-> isString /\ length(message.chars) > MaxMessageLength,
           status |-> 400,
           detail |-> "message too long (max 10000 characters)"]>>

\* the first failure of q in the stated order, status 200 when it has none
FirstFailure(q) ==
    LET checks == OrderedChecks(q)
        failing == {i \in DOMAIN checks : checks[i].fails}
    IN  IF failing = {} THEN [status |-> 200, detail |-> ""]
        ELSE LET i == CHOOSE i \in failing : \A j \in failing : i <= j
             IN  [status |-> checks[i].status, detail |-> checks[i].detail]

\* the 'end' listener answered the request with its first failure, or 200
ReportsFirstFailure(r) ==
    /\ requests'[r].responses = <<FirstFailure(requests[r]).status>>
    /\ requests'[r].detail = FirstFailure(requests[r]).detail

\* C26: the chat endpoint tests a completed request in the order content
\* type (415), JSON (400), string message (400), blank message (400),
\* message length (400), reports the first failure only, and answers 200
\* only when every test passes.
C26_ChecksInOrder ==
    [][\A r \in Reqs : HttpEnd(r) => ReportsFirstFailure(r)]_vars

----------------------------------------------------------------------------
\* C27: a POST /api/chat request whose accumulated body exceeds
\* MAX_REQUEST_BODY_SIZE is answered 413 and destroyed, and process is never
\* called for it.
C27_OversizedBodyRejected ==
    \A r \in Reqs :
        requests[r].bodySize > MaxRequestBodySize =>
            /\ requests[r].phase = "destroyed"
            /\ requests[r].responses = <<413>>
            /\ requests[r].called = 0

\* the limit was passed by the last of several chunks
C27_Witness ==
    \E r \in Reqs :
        /\ requests[r].bodySize = MaxRequestBodySize + 1
        /\ requests[r].phase = "destroyed"
        /\ requests[r].responses = <<413>>
        /\ requests["req1"].phase = "ended"

----------------------------------------------------------------------------
\* C28: at a heartbeat tick a connection with no ping outstanding has isAlive
\* set false and is sent a ping, and a connection whose ping of the previous
\* tick is still unanswered is terminated.
C28_SilentConnectionTerminated ==
    [][Heartbeat =>
        \A c \in Clients :
            sockets[c].state = "open" =>
                IF sockets[c].unanswered > 0
                THEN sockets'[c].state = "terminated"
                ELSE /\ sockets'[c].isAlive = "false"
                     /\ sockets'[c].unanswered = 1]_vars

\* a connection was terminated with its ping unanswered
C28_Witness ==
    \E c \in Clients :
        /\ sockets[c].state = "terminated"
        /\ sockets[c].unanswered = 1
        /\ sockets[c].pongs = 0

\* C29: a connection that has answered every ping before the next heartbeat
\* tick is not terminated by that tick.
C29_AnsweringConnectionSurvives ==
    [][Heartbeat =>
        \A c \in Clients :
            (sockets[c].state = "open" /\ sockets[c].unanswered = 0) =>
                sockets'[c].state = "open"]_vars

\* a connection has answered two pings and been pinged a third time, while
\* the other connection has been terminated
C29_Witness ==
    \E c, d \in Clients :
        /\ sockets[c].state = "open"
        /\ sockets[c].pongs = 2
        /\ sockets[c].unanswered = 1
        /\ sockets[d].state = "terminated"

----------------------------------------------------------------------------
\* C30: wsConnectionCount is never negative and equals the number of
\* connections for which 'connection' has fired and 'close' has not, those
\* terminated by the heartbeat or closed by the shutdown included.
C30_CountsOpenConnections ==
    /\ server.wsConnectionCount >= 0
    /\ server.wsConnectionCount =
            Cardinality({c \in Clients : InClients(sockets[c])})

\* one connection was terminated and has closed, the other is being closed
\* by the shutdown
C30_Witness ==
    /\ server.wsConnectionCount = 1
    /\ server.isShuttingDown
    /\ \E c, d \in Clients :
        /\ sockets[c].state = "closed"
        /\ sockets[c].isAlive = "false"
        /\ sockets[d].state = "closing"

----------------------------------------------------------------------------
\* a signal or an uncaught exception is handled
ShutdownRequested ==
    UncaughtException \/ \E signal \in {"SIGTERM", "SIGINT"} : GracefulShutdown(signal)

\* C31: once isShuttingDown is true it stays true, and a later SIGTERM,
\* SIGINT or uncaught exception in production starts no second shutdown
\* sequence and arms no second force-shutdown timer.
C31_ShutdownRunsOnce ==
    [][/\ server.isShuttingDown => server'.isShuttingDown
       /\ server'.forceTimers <= 1
       /\ (server.isShuttingDown /\ ShutdownRequested) =>
                UNCHANGED <<server, sockets>>]_vars

\* the shutdown has started, its timer is armed, and a client that connected
\* is being closed
C31_Witness ==
    /\ server.isShuttingDown
    /\ server.forceTimers = 1
    /\ nodeEnv = "production"
    /\ \E c \in Clients : sockets[c].state = "closing"

\* the step in which the shutdown sequence starts
ShutdownStarts == ~server.isShuttingDown /\ server'.isShuttingDown

\* the step in which the WebSocket server becomes closed
WssCloses == server.wss # "closed" /\ server'.wss = "closed"

\* the step in which the HTTP server becomes closed
HttpCloses == server.http # "closed" /\ server'.http = "closed"

\* the step in which the process exits with code 0
ExitsZero == server.exit # "0" /\ server'.exit = "0"

\* C32: the shutdown goes in order. The step that starts it stops the heartbeat,
\* sends every connected client the 'system' notice and closes it, with both
\* servers still up; the heartbeat never runs again; the WebSocket server
\* becomes closed only after that, with no client left and the HTTP server still
\* listening; the HTTP server becomes closed only after the WebSocket server;
\* and exit(0) happens only in the step in which the close callback of the HTTP
\* server runs without error.
C32_ShutdownInOrder ==
    [][/\ ShutdownStarts =>
            /\ server'.heartbeat = "cleared"
            /\ server'.wss # "closed" /\ server'.http = "listening"
            /\ \A c \in Clients : sockets[c].state = "open" =>
                    /\ sockets'[c].state = "closing"
                    /\ sockets'[c].sent = sockets[c].sent + 1
                    /\ sockets'[c].lastOut.type = "system"
       /\ server.isShuttingDown => ~Heartbeat
       /\ WssCloses =>
            /\ server.isShuttingDown /\ server.heartbeat = "cleared"
            /\ \A c \in Clients : sockets[c].state \in {"none", "closed"}
            /\ server.http = "listening"
       /\ (server.http = "listening" /\ server'.http # "listening") =>
            server'.wss = "closed"
       /\ HttpCloses => server.wss = "closed"
       /\ ExitsZero =>
            /\ server.exit = "none"
            /\ server.wss = "closed"
            /\ HttpCloses
            /\ \A c \in Clients : sockets[c].state \in {"none", "closed"}]_vars

C32_Witness ==
    /\ server.exit = "0"
    /\ server.http = "closed"
    /\ \E c \in Clients :
            sockets[c].state = "closed" /\ sockets[c].lastOut.type = "system"

====
